---- MODULE Spec2Model ----
(***************************************************************************)
(* Loan Excel Generator: the insurance-rate lookup, the record processor   *)
(* (API implementation main.py and script implementation backup.py) and    *)
(* the /generate-excel request handler of main.py.                         *)
(*                                                                         *)
(* Number representation.  The program computes with Python floats; the    *)
(* model computes with exact rationals [n |-> numerator, d |-> denominator]*)
(* in lowest terms.  Percentages are carried in thousandths of a percent   *)
(* ("milli-percent": 95.01 is 95010) so that the gaps between the rate     *)
(* bands have interior points.  Insurance rates are carried in units of    *)
(* 1/10000 (0.0032 is 32).  Money rendered with two decimals is carried    *)
(* as an integer number of cents.                                          *)
(***************************************************************************)
EXTENDS Integers, Sequences, FiniteSets, TLC

VARIABLES
    \* ---- rate lookup called on its own ----
    loan_percentage,   \* argument, milli-percent
    loan_period,       \* argument, years
    rate,              \* [main, backup]: what each implementation returned
    \* ---- record processor called on its own ----
    data,              \* the input record
    row,               \* [main, backup]: outcome of process_record
    prev,              \* outcome of the previous call (before the input was changed)
    lastOp,            \* what changed between prev and row
    \* ---- /generate-excel ----
    pc,                \* per request: position in the handler
    records,           \* per request: the request body
    rows,              \* per request: rows computed by the handler
    calls,             \* per request: number of process_record calls made
    file,              \* per request: state of /tmp/loan_<uuid>.xlsx
    tasks,             \* per request: background tasks registered, not yet run
    response           \* per request: what the client got

vars == <<loan_percentage, loan_period, rate, data, row, prev, lastOp,
          pc, records, rows, calls, file, tasks, response>>

rateVars == <<loan_percentage, loan_period, rate>>
recordVars == <<data, row, prev, lastOp>>
apiVars == <<pc, records, rows, calls, file, tasks, response>>

(***************************************************************************)
(* Bounds of the model.                                                    *)
(***************************************************************************)
Window == 12        \* milli-percent explored on each side of a band edge
MaxPercent == 110   \* the coarse sweep of loan_percentage goes up to this
MaxRequests == 1    \* requests to /generate-excel in flight together
MaxRecords == 2     \* records in one request body

(***************************************************************************)
(* Insurance rate lookup.                                                  *)
(***************************************************************************)
None == [applicable |-> FALSE, bp |-> 0]
Rate(bp) == [applicable |-> TRUE, bp |-> bp]

\* the tests of the lookup as a table, in the order the code makes them:
\* what each test matches, and what the function returns when it does
BandTest(i, lp) ==
    CASE i = 1 -> lp > 95010
      [] i = 2 -> 70000 <= lp /\ lp <= 80990
      [] i = 3 -> lp = 81000
      [] i = 4 -> 81010 <= lp /\ lp <= 90000
      [] i = 5 -> 90010 <= lp /\ lp <= 95000

BandOutcome(i, period) ==
    CASE i = 1 -> None
      [] i = 2 -> Rate(32)
      [] i = 3 -> IF period <= 25 THEN Rate(21) ELSE Rate(32)
      [] i = 4 -> IF period <= 25 THEN Rate(41) ELSE Rate(52)
      [] i = 5 -> IF period <= 25 THEN Rate(67) ELSE Rate(78)

\* mutant: the term threshold of the exact-81 band is exclusive
calculate_insurance_rate_exclusive_term(lp, period) ==
    IF lp > 95010 THEN None
    ELSE IF 70000 <= lp /\ lp <= 80990 THEN Rate(32)
    ELSE IF lp = 81000 THEN (IF period < 25 THEN Rate(21) ELSE Rate(32))
    ELSE IF 81010 <= lp /\ lp <= 90000 THEN (IF period <= 25 THEN Rate(41) ELSE Rate(52))
    ELSE IF 90010 <= lp /\ lp <= 95000 THEN (IF period <= 25 THEN Rate(67) ELSE Rate(78))
    ELSE None

\* mutant: the fourth band starts at 81, closing the gap (81, 81.01)
calculate_insurance_rate_closed_gap(lp, period) ==
    IF lp > 95010 THEN None
    ELSE IF 70000 <= lp /\ lp <= 80990 THEN Rate(32)
    ELSE IF lp = 81000 THEN (IF period <= 25 THEN Rate(21) ELSE Rate(32))
    ELSE IF 81000 <= lp /\ lp <= 90000 THEN (IF period <= 25 THEN Rate(41) ELSE Rate(52))
    ELSE IF 90010 <= lp /\ lp <= 95000 THEN (IF period <= 25 THEN Rate(67) ELSE Rate(78))
    ELSE None

\* main.py, lines 24-35
calculate_insurance_rate(lp, period) ==
    IF lp > 95010 THEN None
    ELSE IF 70000 <= lp /\ lp <= 80990 THEN Rate(32)
    ELSE IF lp = 81000 THEN (IF period <= 25 THEN Rate(21) ELSE Rate(32))
    ELSE IF 81010 <= lp /\ lp <= 90000 THEN (IF period <= 25 THEN Rate(41) ELSE Rate(52))
    ELSE IF 90010 <= lp /\ lp <= 95000 THEN (IF period <= 25 THEN Rate(67) ELSE Rate(78))
    ELSE None

\* mutant: the last band of the script stops short of 95
calculate_insurance_rate_backup_short_band(lp, period) ==
    IF lp > 95010 THEN None
    ELSE IF 70000 <= lp /\ lp <= 80990 THEN Rate(32)
    ELSE IF lp = 81000 THEN (IF period <= 25 THEN Rate(21) ELSE Rate(32))
    ELSE IF 81010 <= lp /\ lp <= 90000 THEN (IF period <= 25 THEN Rate(41) ELSE Rate(52))
    ELSE IF 90010 <= lp /\ lp < 95000 THEN (IF period <= 25 THEN Rate(67) ELSE Rate(78))
    ELSE None

\* backup.py, lines 10-26
calculate_insurance_rate_backup(lp, period) ==
    IF lp > 95010 THEN None
    ELSE IF 70000 <= lp /\ lp <= 80990 THEN Rate(32)
    ELSE IF lp = 81000 THEN (IF period <= 25 THEN Rate(21) ELSE Rate(32))
    ELSE IF 81010 <= lp /\ lp <= 90000 THEN (IF period <= 25 THEN Rate(41) ELSE Rate(52))
    ELSE IF 90010 <= lp /\ lp <= 95000 THEN (IF period <= 25 THEN Rate(67) ELSE Rate(78))
    ELSE None

(***************************************************************************)
(* Exact arithmetic standing for Python's float operators.                 *)
(***************************************************************************)
Abs(x) == IF x < 0 THEN -x ELSE x

RECURSIVE GCD(_, _)
GCD(a, b) == IF b = 0 THEN a ELSE GCD(b, a % b)

\* the rational n/d (d > 0) in lowest terms
Norm(n, d) ==
    LET g == GCD(Abs(n), d)
    IN  IF n = 0 THEN [n |-> 0, d |-> 1] ELSE [n |-> n \div g, d |-> d \div g]

\* x * y
Mul(x, y) ==
    LET g1 == GCD(Abs(x.n), y.d)
        g2 == GCD(Abs(y.n), x.d)
    IN  IF x.n = 0 \/ y.n = 0 THEN [n |-> 0, d |-> 1]
        ELSE [n |-> (x.n \div g1) * (y.n \div g2), d |-> (x.d \div g2) * (y.d \div g1)]

\* x / k for an integer k > 0
Div(x, k) == Mul(x, [n |-> 1, d |-> k])

\* x - y
Sub(x, y) ==
    LET g == GCD(x.d, y.d)
        l == (x.d \div g) * y.d
    IN  Norm(x.n * (l \div x.d) - y.n * (l \div y.d), l)

Less(x, y) == Sub(x, y).n < 0
Zero == [n |-> 0, d |-> 1]
Twice(x) == Mul([n |-> 2, d |-> 1], x)

\* the float a number of the input stands for: whole units, or thousandths
Whole(k) == [n |-> k, d |-> 1]
Milli(k) == Norm(k, 1000)

\* round(x, 2) and the ",.2f" format: x to the nearest cent, ties to even
Cents(x) ==
    LET y  == Mul(x, [n |-> 100, d |-> 1])
        fl == y.n \div y.d
        r2 == 2 * (y.n - fl * y.d)
    IN  IF r2 < y.d THEN fl
        ELSE IF r2 > y.d THEN fl + 1
        ELSE IF fl % 2 = 0 THEN fl ELSE fl + 1

\* str() of a number inside an f-string: an int prints without a decimal
\* point ("29"), a float always with one ("29.0", "8.7")
PyStr(x) == [milli |-> x.milli, point |-> x.type = "float"]

(***************************************************************************)
(* An input record.  A is in whole currency units, the *_reduction fields  *)
(* are in milli-percent.  The three numbers that are printed with str()    *)
(* carry their Python type: down_payment and annuity_interest as           *)
(* [milli, type], loan_period as [milli, type] with milli = 1000 * years.  *)
(***************************************************************************)
Years(d) == d.loan_period.milli \div 1000

\* main.py, class LoanInput: the declared types (pydantic converts a number
\* to the declared type: an int given for a float field becomes a float, a
\* whole float given for the int field becomes an int)
LoanInput(d) ==
    [d EXCEPT !.down_payment.type = "float",
              !.annuity_interest.type = "float",
              !.loan_period.type = "int"]

\* mutant: loan_period has no upper limit
Validates_no_period_limit(d) ==
    /\ d.A > 0
    /\ 0 <= d.down_payment.milli /\ d.down_payment.milli <= 100000
    /\ 0 < d.loan_period.milli
    /\ d.loan_period.milli % 1000 = 0
    /\ 0 <= d.annuity_interest.milli /\ d.annuity_interest.milli <= 100000
    /\ 0 <= d.purchase_value_reduction /\ d.purchase_value_reduction <= 100000
    /\ 0 <= d.monthly_principal_reduction /\ d.monthly_principal_reduction <= 100000
    /\ 0 <= d.total_interest_reduction /\ d.total_interest_reduction <= 100000

\* main.py, class LoanInput: the Field constraints
Validates(d) ==
    /\ d.A > 0
    /\ 0 <= d.down_payment.milli /\ d.down_payment.milli <= 100000
    /\ 0 < d.loan_period.milli /\ d.loan_period.milli <= 40000
    /\ d.loan_period.milli % 1000 = 0
    /\ 0 <= d.annuity_interest.milli /\ d.annuity_interest.milli <= 100000
    /\ 0 <= d.purchase_value_reduction /\ d.purchase_value_reduction <= 100000
    /\ 0 <= d.monthly_principal_reduction /\ d.monthly_principal_reduction <= 100000
    /\ 0 <= d.total_interest_reduction /\ d.total_interest_reduction <= 100000

(***************************************************************************)
(* process_record of main.py, one operator per local variable.             *)
(***************************************************************************)
purchase_value(d) == Div(Mul(Whole(d.A), Milli(d.purchase_value_reduction)), 100)

\* mutant: the loan is the financed share, 100 - down_payment percent
loan_amount_financed_share(d) ==
    Div(Mul(purchase_value(d), Milli(100000 - d.down_payment.milli)), 100)

\* mutant: the loan amount is rounded to cents before it is used
loan_amount_rounded(d) ==
    Norm(Cents(Div(Mul(purchase_value(d), Milli(d.down_payment.milli)), 100)), 100)

loan_amount(d) == Div(Mul(purchase_value(d), Milli(d.down_payment.milli)), 100)

base_principal(d) == Div(Div(loan_amount(d), Years(d)), 12)

\* mutant: the reduction is not applied
principal_unreduced(d) == base_principal(d)

principal(d) ==
    Sub(base_principal(d),
        Div(Mul(base_principal(d), Milli(d.monthly_principal_reduction)), 100))

base_interest(d) == Mul(loan_amount(d), Whole(Years(d)))

interest_value(d) == Div(Mul(base_interest(d), Milli(d.annuity_interest.milli)), 100)

total_interest(d) ==
    Sub(interest_value(d),
        Div(Mul(interest_value(d), Milli(d.total_interest_reduction)), 100))

\* mutant: the down payment itself is looked up
loan_percentage_is_down_payment(d) == d.down_payment.milli

loan_percentage_of(d) == 100000 - d.down_payment.milli

rate_of(d) == calculate_insurance_rate(loan_percentage_of(d), Years(d))

\* "NA", or the monthly amount rounded to cents
insurance_monthly(d) ==
    IF ~rate_of(d).applicable THEN [na |-> TRUE, cents |-> 0]
    ELSE [na |-> FALSE,
          cents |-> Cents(Div(Mul(loan_amount(d), Norm(rate_of(d).bp, 10000)), 12))]

\* the returned dict: label and value of each column, in insertion order
output_row(d) ==
    << <<"Sample no,record no", d.sample_no>>,
       <<"Customer Reference Number", d.customer_reference>>,
       <<"Customer Name", d.customer_name>>,
       <<"City , State", d.city_state>>,
       <<"Purchase Value & Down Payment",
         <<"$  ", Cents(purchase_value(d)), " and ", PyStr(d.down_payment), "%">> >>,
       <<"Loan Period AND Annuity Interest",
         <<PyStr(d.loan_period), " Years and ", PyStr(d.annuity_interest), "%">> >>,
       <<"Guarantor Name", d.guarantor_name>>,
       <<"Guarantor Reference Number", d.guarantor_reference>>,
       <<"Loan Amount AND Principal",
         <<"$  ", Cents(loan_amount(d)), " , ", Cents(principal(d))>> >>,
       <<"Total Interest for Loan", <<"$  ", Cents(total_interest(d))>> >>,
       <<"Period & Property Insurance per Month",
         IF insurance_monthly(d).na THEN <<"NA">>
         ELSE <<"$  ", insurance_monthly(d).cents>> >> >>

\* the values of the local variables when the function returns
locals_of(d) ==
    [purchase_value |-> purchase_value(d),
     loan_amount |-> loan_amount(d),
     principal |-> principal(d),
     total_interest |-> total_interest(d),
     rate |-> rate_of(d),
     insurance_monthly |-> insurance_monthly(d)]

\* outcomes of a call
NotCalled == [status |-> "not called"]
Raised(e) == [status |-> "raised", error |-> e]
Returned(l, r) == [status |-> "returned", locals |-> l, row |-> r]

\* mutant: a division by zero yields inf (nan for 0/0), as with numpy floats
Infinity == [n |-> 1, d |-> 0]
process_record_no_raise(d) ==
    IF Years(d) = 0
    THEN Returned([purchase_value |-> purchase_value(d),
                   loan_amount |-> loan_amount(d),
                   principal |-> Infinity,
                   total_interest |-> Zero,
                   rate |-> rate_of(d),
                   insurance_monthly |-> insurance_monthly(d)], <<>>)
    ELSE Returned(locals_of(d), output_row(d))

\* loan_amount / data.loan_period raises ZeroDivisionError when the period
\* is 0 (also for 0.0 / 0); nothing after it runs
process_record(d) ==
    IF Years(d) = 0 THEN Raised("ZeroDivisionError")
    ELSE Returned(locals_of(d), output_row(d))

(***************************************************************************)
(* process_record of backup.py: the record is a plain dict, its numbers    *)
(* keep the type they were written with.                                   *)
(***************************************************************************)
purchase_value_backup(d) ==
    Div(Mul(Whole(d.A), Milli(d.purchase_value_reduction)), 100)

loan_amount_backup(d) ==
    Div(Mul(purchase_value_backup(d), Milli(d.down_payment.milli)), 100)

base_principal_backup(d) == Div(Div(loan_amount_backup(d), Years(d)), 12)

principal_backup(d) ==
    Sub(base_principal_backup(d),
        Div(Mul(base_principal_backup(d), Milli(d.monthly_principal_reduction)), 100))

base_interest_value_backup(d) == Mul(loan_amount_backup(d), Whole(Years(d)))

interest_value_backup(d) ==
    Div(Mul(base_interest_value_backup(d), Milli(d.annuity_interest.milli)), 100)

total_interest_backup(d) ==
    Sub(interest_value_backup(d),
        Div(Mul(interest_value_backup(d), Milli(d.total_interest_reduction)), 100))

rate_backup(d) ==
    calculate_insurance_rate_backup(100000 - d.down_payment.milli, Years(d))

insurance_monthly_backup(d) ==
    IF ~rate_backup(d).applicable THEN [na |-> TRUE, cents |-> 0]
    ELSE LET insurance_per_annum == Mul(loan_amount_backup(d), Norm(rate_backup(d).bp, 10000))
         IN  [na |-> FALSE, cents |-> Cents(Div(insurance_per_annum, 12))]

output_row_backup(d) ==
    << <<"Sample No", d.sample_no>>,
       <<"Customer Reference Number", d.customer_reference>>,
       <<"Customer Name", d.customer_name>>,
       <<"City State", d.city_state>>,
       <<"Purchase Value & Down Payment",
         <<"$  ", Cents(purchase_value_backup(d)), " and ", PyStr(d.down_payment), "%">> >>,
       <<"Loan Period & Annuity Interest",
         <<PyStr(d.loan_period), " Years and ", PyStr(d.annuity_interest), "%">> >>,
       <<"Guarantor Name", d.guarantor_name>>,
       <<"Guarantor Reference Number", d.guarantor_reference>>,
       <<"Loan Amount & Principal",
         <<"$  ", Cents(loan_amount_backup(d)), " , ", Cents(principal_backup(d))>> >>,
       <<"Total Interest for Loan", <<"$  ", Cents(total_interest_backup(d))>> >>,
       <<"Period & Property Insurance per Month",
         IF insurance_monthly_backup(d).na THEN <<"NA">>
         ELSE <<"$  ", insurance_monthly_backup(d).cents>> >> >>

locals_backup(d) ==
    [purchase_value |-> purchase_value_backup(d),
     loan_amount |-> loan_amount_backup(d),
     principal |-> principal_backup(d),
     total_interest |-> total_interest_backup(d),
     rate |-> rate_backup(d),
     insurance_monthly |-> insurance_monthly_backup(d)]

process_record_backup(d) ==
    IF Years(d) = 0 THEN Raised("ZeroDivisionError")
    ELSE Returned(locals_backup(d), output_row_backup(d))

(***************************************************************************)
(* Inputs explored.                                                        *)
(***************************************************************************)
\* the edges of the rate bands, milli-percent
BandEdges == {70000, 80990, 81000, 81010, 90000, 90010, 95000, 95010}

\* every value within Window of an edge, and a sweep in steps of 0.25
LoanPercentages ==
    UNION {(e - Window)..(e + Window) : e \in BandEdges}
    \cup {250 * k : k \in 0..(4 * MaxPercent)}

LoanPeriods == {0, 1, 24, 25, 26, 40, 41}

Int_(m) == [milli |-> m, type |-> "int"]
Float_(m) == [milli |-> m, type |-> "float"]

\* down payments: both ends, each band, each gap, each band edge
DownPayments ==
    {Int_(0), Float_(4990), Float_(4995), Int_(5000), Float_(9995),
     Int_(19000), Float_(19000), Float_(19005), Float_(19010), Int_(29000),
     Float_(30010), Float_(100000)}

RecordPeriods == {Int_(0), Int_(16000), Float_(16000), Int_(26000)}
AnnuityInterests == {Int_(0), Int_(8000), Float_(8500)}
PurchaseReductions == {0, 25000, 100000}
PrincipalReductions == {0, 10000, 100000}
InterestReductions == {0, 20000, 100000}
Amounts == {1250}

Record(a, dp, lp, ai, pvr, mpr, tir) ==
    [sample_no |-> "1",
     customer_reference |-> "CR12345",
     customer_name |-> "John Doe",
     city_state |-> "New York, NY",
     A |-> a,
     down_payment |-> dp,
     loan_period |-> lp,
     annuity_interest |-> ai,
     purchase_value_reduction |-> pvr,
     monthly_principal_reduction |-> mpr,
     total_interest_reduction |-> tir,
     guarantor_name |-> "Mark Doe",
     guarantor_reference |-> "GR98765"]

RecordInputs ==
    {Record(a, dp, lp, ai, pvr, mpr, tir) :
        a \in Amounts, dp \in DownPayments, lp \in RecordPeriods,
        ai \in AnnuityInterests, pvr \in PurchaseReductions,
        mpr \in PrincipalReductions, tir \in InterestReductions}

RestRecord ==
    Record(1250, Int_(29000), Int_(16000), Float_(8500), 25000, 10000, 20000)

(***************************************************************************)
(* The parts of the state a specification does not use stay at rest.       *)
(***************************************************************************)
RateAtRest ==
    /\ loan_percentage = 0
    /\ loan_period = 0
    /\ rate = NotCalled

RecordAtRest ==
    /\ data = RestRecord
    /\ row = [main |-> NotCalled, backup |-> NotCalled]
    /\ prev = [main |-> NotCalled, backup |-> NotCalled]
    /\ lastOp = "none"

Requests == 1..MaxRequests

ApiAtRest ==
    /\ pc = [r \in Requests |-> "responded"]
    /\ records = [r \in Requests |-> <<>>]
    /\ rows = [r \in Requests |-> <<>>]
    /\ calls = [r \in Requests |-> 0]
    /\ file = [r \in Requests |-> "absent"]
    /\ tasks = [r \in Requests |-> {}]
    /\ response = [r \in Requests |-> "none"]

(***************************************************************************)
(* RateSpec: the rate lookup of both files called on one input.            *)
(***************************************************************************)
RateInit ==
    /\ loan_percentage \in LoanPercentages
    /\ loan_period \in LoanPeriods
    /\ rate = NotCalled
    /\ RecordAtRest
    /\ ApiAtRest

RateCall ==
    /\ rate.status = "not called"
    /\ rate' = [status |-> "returned",
                main |-> calculate_insurance_rate(loan_percentage, loan_period),
                backup |-> calculate_insurance_rate_backup(loan_percentage, loan_period)]
    /\ UNCHANGED <<loan_percentage, loan_period, recordVars, apiVars>>

(***************************************************************************)
(* RecordSpec: process_record of both files called on one record, then     *)
(* called again on the record with one field changed.                      *)
(***************************************************************************)
Outcomes(d) ==
    [main |-> process_record(LoanInput(d)), backup |-> process_record_backup(d)]

RecordInit ==
    /\ data \in RecordInputs
    /\ row = [main |-> NotCalled, backup |-> NotCalled]
    /\ prev = [main |-> NotCalled, backup |-> NotCalled]
    /\ lastOp = "none"
    /\ RateAtRest
    /\ ApiAtRest

Call ==
    /\ lastOp = "none"
    /\ row' = Outcomes(data)
    /\ lastOp' = "call"
    /\ UNCHANGED <<data, prev, rateVars, apiVars>>

Recall(d, op) ==
    /\ lastOp = "call"
    /\ data' = d
    /\ prev' = row
    /\ row' = Outcomes(d)
    /\ lastOp' = op
    /\ UNCHANGED <<rateVars, apiVars>>

DoubleA == Recall([data EXCEPT !.A = 2 * @], "double A")

RaisePurchaseReduction ==
    \E v \in PurchaseReductions :
        /\ v > data.purchase_value_reduction
        /\ Recall([data EXCEPT !.purchase_value_reduction = v], "raise purchase_value_reduction")

RaisePrincipalReduction ==
    \E v \in PrincipalReductions :
        /\ v > data.monthly_principal_reduction
        /\ Recall([data EXCEPT !.monthly_principal_reduction = v], "raise monthly_principal_reduction")

RaiseInterestReduction ==
    \E v \in InterestReductions :
        /\ v > data.total_interest_reduction
        /\ Recall([data EXCEPT !.total_interest_reduction = v], "raise total_interest_reduction")

RecordNext ==
    \/ Call
    \/ DoubleA
    \/ RaisePurchaseReduction
    \/ RaisePrincipalReduction
    \/ RaiseInterestReduction

RateSpec == RateInit /\ [][RateCall]_vars
RecordSpec == RecordInit /\ [][RecordNext]_vars

(***************************************************************************)
(* Spec: POST /generate-excel of main.py.  A request is parsed and         *)
(* validated by the framework against List[LoanInput], then the handler    *)
(* runs to its return or raise, then the response is sent, then the        *)
(* background tasks registered by the handler run.                         *)
(***************************************************************************)
ApiRecords ==
    {RestRecord,
     [RestRecord EXCEPT !.down_payment = Int_(0)],
     [RestRecord EXCEPT !.A = 0],
     [RestRecord EXCEPT !.down_payment = Float_(100010)],
     [RestRecord EXCEPT !.loan_period = Int_(41000)]}

Bodies == UNION {[1..n -> ApiRecords] : n \in 0..MaxRecords}

Init ==
    /\ pc = [r \in Requests |-> "received"]
    /\ records \in [Requests -> Bodies]
    /\ rows = [r \in Requests |-> <<>>]
    /\ calls = [r \in Requests |-> 0]
    /\ file = [r \in Requests |-> "absent"]
    /\ tasks = [r \in Requests |-> {}]
    /\ response = [r \in Requests |-> "none"]
    /\ RateAtRest
    /\ RecordAtRest

\* the body is validated as a whole before the handler is entered; a record
\* that fails a Field constraint ends the request with 422
ValidateRequest(r) ==
    /\ pc[r] = "received"
    /\ IF \A i \in 1..Len(records[r]) : Validates(records[r][i])
       THEN /\ pc' = [pc EXCEPT ![r] = "handler"]
            /\ UNCHANGED response
       ELSE /\ pc' = [pc EXCEPT ![r] = "responding"]
            /\ response' = [response EXCEPT ![r] = "422"]
    /\ UNCHANGED <<records, rows, calls, file, tasks, rateVars, recordVars>>

\* index of the first record whose process_record raises, 0 when none does
RECURSIVE FirstRaise(_, _)
FirstRaise(outs, i) ==
    IF i > Len(outs) THEN 0
    ELSE IF outs[i].status = "raised" THEN i
    ELSE FirstRaise(outs, i + 1)

\* generate_excel, from its first line to its return or raise.  The I/O of
\* the try block may fail: df.to_excel (the file may or may not have been
\* created), or load_workbook / wb.save (the file exists by then).
generate_excel(r) ==
    /\ pc[r] = "handler"
    /\ pc' = [pc EXCEPT ![r] = "responding"]
    /\ LET body == [i \in 1..Len(records[r]) |-> LoanInput(records[r][i])]
           outs == [i \in 1..Len(body) |-> process_record(body[i])]
           k    == FirstRaise(outs, 1)
       IN  IF body = <<>>
           THEN /\ response' = [response EXCEPT ![r] = "400"]
                /\ UNCHANGED <<rows, calls, file, tasks>>
           ELSE IF k # 0
           THEN /\ calls' = [calls EXCEPT ![r] = k]
                /\ response' = [response EXCEPT ![r] = "500"]
                /\ UNCHANGED <<rows, file, tasks>>
           ELSE /\ calls' = [calls EXCEPT ![r] = Len(body)]
                /\ rows' = [rows EXCEPT ![r] = [i \in 1..Len(body) |-> outs[i].row]]
                /\ \E io \in {"to_excel fails", "to_excel fails midway", "save fails", "ok"} :
                       /\ file' = [file EXCEPT ![r] =
                                     IF io = "to_excel fails" THEN "absent" ELSE "exists"]
                       /\ tasks' = [tasks EXCEPT ![r] =
                                     IF io = "ok" THEN {"os.remove"} ELSE {}]
                       /\ response' = [response EXCEPT ![r] =
                                     IF io = "ok" THEN "file" ELSE "500"]
    /\ UNCHANGED <<records, rateVars, recordVars>>

\* the response reaches the client
SendResponse(r) ==
    /\ pc[r] = "responding"
    /\ pc' = [pc EXCEPT ![r] = "responded"]
    /\ UNCHANGED <<records, rows, calls, file, tasks, response, rateVars, recordVars>>

\* background_tasks run after the response: os.remove(file_name)
RunBackgroundTasks(r) ==
    /\ pc[r] = "responded"
    /\ tasks[r] # {}
    /\ file' = [file EXCEPT ![r] = "removed"]
    /\ tasks' = [tasks EXCEPT ![r] = {}]
    /\ UNCHANGED <<pc, records, rows, calls, response, rateVars, recordVars>>

Next ==
    \E r \in Requests :
        \/ ValidateRequest(r)
        \/ generate_excel(r)
        \/ SendResponse(r)
        \/ RunBackgroundTasks(r)

Spec == Init /\ [][Next]_vars

(***************************************************************************)
(* FunctionsSpec: both pure functions of both files, each called on its    *)
(* own inputs (the behaviours of RateSpec and those of RecordSpec).        *)
(***************************************************************************)
FunctionsInit == RateInit \/ RecordInit
FunctionsNext == RateCall \/ RecordNext
FunctionsSpec == FunctionsInit /\ [][FunctionsNext]_vars

(***************************************************************************)
(* Properties.                                                             *)
(***************************************************************************)
Implementations == {"main", "backup"}
RateReturned == rate.status = "returned"
Called == lastOp # "none"
BothReturned(o) == \A m \in Implementations : o[m].status = "returned"

\* the lookup with its five tests made in the given order
RECURSIVE InOrder(_, _, _)
InOrder(order, lp, period) ==
    IF order = <<>> THEN None
    ELSE IF BandTest(Head(order), lp) THEN BandOutcome(Head(order), period)
    ELSE InOrder(Tail(order), lp, period)

Orders == Permutations(1..5)

\* C1: inside a band the lookup returns the band's rate: 0.0032 on
\* [70, 80.99]; at exactly 81, 0.0021 up to 25 years and 0.0032 beyond; on
\* [81.01, 90], 0.0041 / 0.0052; on [90.01, 95], 0.0067 / 0.0078.  At most
\* one test matches any input, and making the tests in any order gives the
\* result the code gives.
C1_BandRates ==
    RateReturned =>
        LET lp == loan_percentage
            short == loan_period <= 25
        IN  /\ \A m \in Implementations :
                /\ (70000 <= lp /\ lp <= 80990) => rate[m] = Rate(32)
                /\ lp = 81000 => rate[m] = Rate(IF short THEN 21 ELSE 32)
                /\ (81010 <= lp /\ lp <= 90000) => rate[m] = Rate(IF short THEN 41 ELSE 52)
                /\ (90010 <= lp /\ lp <= 95000) => rate[m] = Rate(IF short THEN 67 ELSE 78)
            /\ Cardinality({i \in 1..5 : BandTest(i, lp)}) <= 1
            /\ \A order \in Orders : InOrder(order, lp, loan_period) = rate.main

C1_Witness ==
    /\ RateReturned
    /\ loan_percentage = 81000
    /\ loan_period = 26
    /\ rate.main = Rate(32)

\* the values the bands leave out, as the claim lists them
Uncovered(lp) ==
    \/ lp > 95010
    \/ lp < 70000
    \/ 95000 < lp /\ lp < 95010
    \/ 80990 < lp /\ lp < 81000
    \/ 81000 < lp /\ lp < 81010

\* C2: for a loan_percentage above 95.01, below 70, or inside one of the
\* gaps (95, 95.01), (80.99, 81), (81, 81.01), the lookup returns None,
\* whatever the period.
C2_NotApplicable ==
    (RateReturned /\ Uncovered(loan_percentage)) =>
        \A m \in Implementations : rate[m] = None

C2_Witness ==
    /\ RateReturned
    /\ loan_percentage = 81001
    /\ rate.main = None
    /\ rate.backup = None

\* the insurance column of a returned row
InsuranceField(o) == o.row[11][2]

\* C3 as stated: with down_payment = 0 and the record otherwise valid,
\* loan_amount, principal and total_interest are 0 and insurance_monthly is
\* a numeric zero computed from an applicable rate.
C3_ZeroDownPaymentNumericInsurance ==
    (Called /\ Validates(data) /\ data.down_payment.milli = 0) =>
        \A m \in Implementations :
            /\ row[m].status = "returned"
            /\ row[m].locals.loan_amount = Zero
            /\ row[m].locals.principal = Zero
            /\ row[m].locals.total_interest = Zero
            /\ row[m].locals.rate.applicable
            /\ row[m].locals.insurance_monthly = [na |-> FALSE, cents |-> 0]

\* C3 amended: with down_payment = 0 and the record otherwise valid,
\* loan_amount, principal and total_interest are 0; loan_percentage is 100,
\* above every band, so no rate applies and the insurance column is "NA".
C3_ZeroDownPayment ==
    (Called /\ Validates(data) /\ data.down_payment.milli = 0) =>
        \A m \in Implementations :
            /\ row[m].status = "returned"
            /\ row[m].locals.loan_amount = Zero
            /\ row[m].locals.principal = Zero
            /\ row[m].locals.total_interest = Zero
            /\ ~row[m].locals.rate.applicable
            /\ row[m].locals.insurance_monthly.na
            /\ InsuranceField(row[m]) = <<"NA">>

C3_Witness ==
    /\ lastOp = "call"
    /\ Validates(data)
    /\ data.down_payment.milli = 0
    /\ data.purchase_value_reduction > 0
    /\ row.main.status = "returned"
    /\ InsuranceField(row.main) = <<"NA">>

RaisedReduction ==
    lastOp \in {"raise purchase_value_reduction",
                "raise monthly_principal_reduction",
                "raise total_interest_reduction"}

\* C4 as stated, in its weakest reading: after any one of the three
\* reductions is increased, principal and total_interest are not larger
\* than before.
C4_ReductionNeverIncreases ==
    (RaisedReduction /\ BothReturned(row) /\ BothReturned(prev)) =>
        \A m \in Implementations :
            /\ ~Less(prev[m].locals.principal, row[m].locals.principal)
            /\ ~Less(prev[m].locals.total_interest, row[m].locals.total_interest)

\* x went strictly down, or was 0 and stayed 0
Reduced(before, after) ==
    IF before = Zero THEN after = Zero ELSE Less(after, before)

\* C4 amended: increasing monthly_principal_reduction strictly decreases
\* principal unless it is 0 already, and leaves total_interest alone;
\* increasing total_interest_reduction strictly decreases total_interest
\* unless it is 0 already, and leaves principal alone; increasing
\* purchase_value_reduction increases purchase_value (it is that percentage
\* of A) and never decreases principal or total_interest.
C4_ReductionMonotone ==
    (RaisedReduction /\ BothReturned(row) /\ BothReturned(prev)) =>
        \A m \in Implementations :
            LET old == prev[m].locals
                new == row[m].locals
            IN  /\ lastOp = "raise monthly_principal_reduction" =>
                    /\ Reduced(old.principal, new.principal)
                    /\ new.total_interest = old.total_interest
                /\ lastOp = "raise total_interest_reduction" =>
                    /\ Reduced(old.total_interest, new.total_interest)
                    /\ new.principal = old.principal
                /\ lastOp = "raise purchase_value_reduction" =>
                    /\ Less(old.purchase_value, new.purchase_value)
                    /\ ~Less(new.principal, old.principal)
                    /\ ~Less(new.total_interest, old.total_interest)

C4_Witness ==
    /\ lastOp = "raise monthly_principal_reduction"
    /\ BothReturned(row)
    /\ BothReturned(prev)
    /\ Less(row.main.locals.principal, prev.main.locals.principal)
    /\ Less(Zero, row.main.locals.principal)

\* C5: a call with loan_period = 0 raises ZeroDivisionError and returns no
\* row, whatever the other fields are.
C5_ZeroPeriodRaises ==
    (Called /\ Years(data) = 0) =>
        \A m \in Implementations :
            /\ row[m].status = "raised"
            /\ row[m].error = "ZeroDivisionError"

C5_Witness ==
    /\ Called
    /\ Years(data) = 0
    /\ data.down_payment.milli = 0
    /\ row.main.status = "raised"
    /\ row.backup.status = "raised"

\* C6: for a valid record the call returns a full row; its insurance
\* column is exactly "NA" when the lookup on (100 - down_payment,
\* loan_period) gives no rate, and otherwise "$" followed by
\* loan_amount * rate / 12 rounded to cents.
C6_UnavailableRateIsNA ==
    (Called /\ Validates(data)) =>
        \A m \in Implementations :
            /\ row[m].status = "returned"
            /\ Len(row[m].row) = 11
            /\ LET r == calculate_insurance_rate(100000 - data.down_payment.milli, Years(data))
                   monthly == Div(Mul(row[m].locals.loan_amount, Norm(r.bp, 10000)), 12)
               IN  IF r.applicable
                   THEN InsuranceField(row[m]) = <<"$  ", Cents(monthly)>>
                   ELSE InsuranceField(row[m]) = <<"NA">>

C6_Witness ==
    /\ Called
    /\ Validates(data)
    /\ data.down_payment.milli = 19005
    /\ data.purchase_value_reduction > 0
    /\ row.main.status = "returned"
    /\ InsuranceField(row.main) = <<"NA">>
    /\ InsuranceField(row.backup) = <<"NA">>

\* the field constraints as the data model states them
ViolatesConstraints(d) ==
    \/ d.A <= 0
    \/ \E x \in {d.down_payment.milli, d.annuity_interest.milli,
                 d.purchase_value_reduction, d.monthly_principal_reduction,
                 d.total_interest_reduction} : x < 0 \/ x > 100000
    \/ d.loan_period.milli <= 0
    \/ d.loan_period.milli > 40000

HasInvalidRecord(r) ==
    \E i \in 1..Len(records[r]) : ViolatesConstraints(records[r][i])

\* C7: when any record of a request violates a field constraint,
\* process_record is called on none of the request's records, no file is
\* written, and the request ends as a validation failure.
C7_InvalidRejectedBeforeComputation ==
    \A r \in Requests :
        HasInvalidRecord(r) =>
            /\ calls[r] = 0
            /\ rows[r] = <<>>
            /\ file[r] = "absent"
            /\ pc[r] # "handler"
            /\ response[r] \in {"none", "422"}

C7_Witness ==
    \E r \in Requests :
        /\ HasInvalidRecord(r)
        /\ \E i \in 1..Len(records[r]) : ~ViolatesConstraints(records[r][i])
        /\ pc[r] = "responded"
        /\ response[r] = "422"

\* C8: calling again with A doubled and everything else unchanged exactly
\* doubles purchase_value, loan_amount, principal and total_interest.
C8_DoublingAScales ==
    (lastOp = "double A" /\ BothReturned(row) /\ BothReturned(prev)) =>
        \A m \in Implementations :
            /\ row[m].locals.purchase_value = Twice(prev[m].locals.purchase_value)
            /\ row[m].locals.loan_amount = Twice(prev[m].locals.loan_amount)
            /\ row[m].locals.principal = Twice(prev[m].locals.principal)
            /\ row[m].locals.total_interest = Twice(prev[m].locals.total_interest)

C8_Witness ==
    /\ lastOp = "double A"
    /\ BothReturned(row)
    /\ BothReturned(prev)
    /\ Less(Zero, prev.main.locals.principal)
    /\ Less(Zero, prev.main.locals.total_interest)
    /\ row.main.locals.principal = Twice(prev.main.locals.principal)

\* C9: the temporary file is never removed before the response has been
\* returned, and once the request has finished (file response or HTTP 500)
\* and its background tasks have run, no file the handler created is left.
C9_TempFileRemoved ==
    \A r \in Requests :
        /\ file[r] = "removed" => pc[r] = "responded"
        /\ (pc[r] = "responded" /\ tasks[r] = {}) => file[r] # "exists"

\* the values of a returned row, without the labels
Values(o) == [i \in 1..Len(o.row) |-> o.row[i][2]]

\* C10 as stated: the two lookups return the same result, and for a record
\* both accept the two rows have the same number of fields with identical
\* values in each position.
C10_SameRows ==
    /\ RateReturned => rate.main = rate.backup
    /\ (Called /\ Validates(data)) =>
        /\ BothReturned(row)
        /\ Values(row.main) = Values(row.backup)

\* C10 amended: the two lookups return the same result; for a record both
\* accept the two rows have the same number of fields, identical in every
\* position but the two that print a number of the input with str()
\* ("Purchase Value & Down Payment", "Loan Period ... Annuity Interest"),
\* and identical there too when the record's numbers already have the
\* types LoanInput declares.  Otherwise main.py prints the converted
\* number ("29.0%", "16 Years") where backup.py prints it as written
\* ("29%", "16.0 Years"); the amounts printed beside them are the same.
C10_SameRowsForDeclaredTypes ==
    /\ RateReturned => rate.main = rate.backup
    /\ (Called /\ Validates(data)) =>
        /\ BothReturned(row)
        /\ Len(row.main.row) = Len(row.backup.row)
        /\ row.main.locals = row.backup.locals
        /\ \A i \in (1..Len(row.main.row)) \ {5, 6} :
               Values(row.main)[i] = Values(row.backup)[i]
        /\ Values(row.main)[5][2] = Values(row.backup)[5][2]
        /\ LoanInput(data) = data => Values(row.main) = Values(row.backup)
        /\ LoanInput(data) # data => Values(row.main) # Values(row.backup)

C10_Witness ==
    /\ Called
    /\ Validates(data)
    /\ LoanInput(data) = data
    /\ BothReturned(row)
    /\ ~row.main.locals.insurance_monthly.na
    /\ Values(row.main) = Values(row.backup)

====
